---- MODULE Spec2Model ----
(***************************************************************************)
(* Response Grepper (src/ResponseGrepper.py): a message-editor tab that    *)
(* runs a user-supplied regular expression against the body of the         *)
(* displayed HTTP response and renders the matches as HTML.                *)
(*                                                                         *)
(* Text is a sequence of one-character strings.  Rendered markup is a      *)
(* sequence of tokens: a token is either one character that came from a    *)
(* Python string, or a whole literal the plugin emits (a tag, an entity).  *)
(* Python's None is the empty tuple <<>>, and a value v that may be None   *)
(* is carried as <<v>>.                                                    *)
(***************************************************************************)
EXTENDS Integers, Sequences, FiniteSets, TLC

None == <<>>
Some(v) == <<v>>
IsNone(o) == Len(o) = 0
Val(o) == o[1]

(***************************************************************************)
(* Python string primitives used by the plugin.                            *)
(***************************************************************************)

\* str.strip() removes these from both ends
IsSpace(c) == c \in {" ", "\t", "\n", "\r"}

RECURSIVE LStrip(_)
LStrip(s) ==
    IF Len(s) > 0 /\ IsSpace(Head(s)) THEN LStrip(Tail(s)) ELSE s

RECURSIVE RStrip(_)
RStrip(s) ==
    IF Len(s) > 0 /\ IsSpace(s[Len(s)]) THEN RStrip(SubSeq(s, 1, Len(s) - 1)) ELSE s

Strip(s) == RStrip(LStrip(s))

\* s[a:b] with Python's clamping of the indices (0-based, b exclusive)
SliceIndex(i, n) == IF i < 0 THEN (IF i + n < 0 THEN 0 ELSE i + n)
                    ELSE IF i > n THEN n ELSE i

Slice(s, a, b) ==
    LET lo == SliceIndex(a, Len(s))
        hi == SliceIndex(b, Len(s))
    IN  IF lo >= hi THEN <<>> ELSE SubSeq(s, lo + 1, hi)

Drop(s, n) == SubSeq(s, n + 1, Len(s))

\* index of the first occurrence of old in s, 0 when there is none
Find(s, old) ==
    LET at == {i \in 1..(Len(s) - Len(old) + 1) : SubSeq(s, i, i + Len(old) - 1) = old}
    IN  IF at = {} THEN 0 ELSE CHOOSE i \in at : \A j \in at : i <= j

\* str.replace(old, new): left to right, non-overlapping (old is never empty)
RECURSIVE Replace(_, _, _)
Replace(s, old, new) ==
    LET k == Find(s, old)
    IN  IF k = 0 THEN s
        ELSE SubSeq(s, 1, k - 1) \o new \o Replace(Drop(s, k + Len(old) - 1), old, new)

\* the concatenation of the sequences ss[lo..hi]
RECURSIVE ConcatRange(_, _, _)
ConcatRange(ss, lo, hi) ==
    IF lo > hi THEN <<>>
    ELSE IF lo = hi THEN ss[lo]
    ELSE LET mid == (lo + hi) \div 2
         IN  ConcatRange(ss, lo, mid) \o ConcatRange(ss, mid + 1, hi)

Concat(ss) == ConcatRange(ss, 1, Len(ss))

RECURSIVE Repeat(_, _)
Repeat(x, n) == IF n <= 0 THEN <<>> ELSE <<x>> \o Repeat(x, n - 1)

(***************************************************************************)
(* html_encode and fix_whitespace.                                         *)
(***************************************************************************)

html_escape_table(c) ==
    CASE c = "&"  -> "&amp;"
      [] c = "\"" -> "&quot;"
      [] c = ">"  -> "&gt;"
      [] c = "<"  -> "&lt;"
      [] OTHER    -> c

html_encode(text) == [i \in 1..Len(text) |-> html_escape_table(text[i])]

\* re.compile(" {2,}").sub(_replacer, text): in a run of two or more spaces
\* every space but the first becomes &nbsp;
SubSpaces(s) ==
    [i \in 1..Len(s) |->
        IF s[i] = " " /\ i > 1 /\ s[i - 1] = " " THEN "&nbsp;" ELSE s[i]]

fix_whitespace(text) ==
    LET t == SubSpaces(text)
    IN  Concat([i \in 1..Len(t) |->
                  IF t[i] = "\t" THEN Repeat("&nbsp;", 4) ELSE <<t[i]>>])

(***************************************************************************)
(* The regular-expression engine behind re.search / re.finditer            *)
(* (src/ResponseGrepper.py lines 271 and 273), for the pattern language    *)
(*   literal  .  x?  x*  x+  x??  x*?  x+?  a|b  (x)  (?:x)  (?P<name>x)   *)
(* Compile follows sre_parse: _parse_sub is ParseSub, the loop of _parse   *)
(* is ParseSeq.  Groups are numbered by their opening parenthesis.         *)
(***************************************************************************)

Fail(msg) == [ok |-> FALSE, err |-> msg]

NameChars == {"a", "b", "n", "m", "x"}

\* index of the first ">" at or after i, 0 when there is none
RECURSIVE FindClose(_, _)
FindClose(p, i) ==
    IF i > Len(p) THEN 0 ELSE IF p[i] = ">" THEN i ELSE FindClose(p, i + 1)

HasName(names, nm) == \E k \in 1..Len(names) : names[k][1] = nm

At(p, i) == IF i >= 1 /\ i <= Len(p) THEN p[i] ELSE ""

RECURSIVE ParseSub(_, _, _, _)
RECURSIVE ParseSeq(_, _, _, _, _)

\* a parsed branch r followed by "|" and the branches rest
JoinBranches(r, rest) ==
    IF ~rest.ok THEN rest
    ELSE [ok |-> TRUE, node |-> [t |-> "alt", kids |-> <<r.node, rest.node>>],
          i |-> rest.i, g |-> rest.g, names |-> rest.names]

AfterBranch(p, r) ==
    IF ~r.ok THEN r
    ELSE IF At(p, r.i) = "|" THEN JoinBranches(r, ParseSub(p, r.i + 1, r.g, r.names))
    ELSE r

\* _parse_sub: the branches of an alternation, from position i
ParseSub(p, i, g, names) == AfterBranch(p, ParseSeq(p, i, g, names, <<>>))

\* what follows "(": where the body starts, the capture index the group
\* gets (0: non-capturing) and its name
GroupHeader(p, i, g) ==
    IF At(p, i + 1) # "?" THEN [ok |-> TRUE, j |-> i + 1, gid |-> g + 1, nm |-> <<>>]
    ELSE IF At(p, i + 2) = ":" THEN [ok |-> TRUE, j |-> i + 3, gid |-> 0, nm |-> <<>>]
    ELSE IF At(p, i + 2) = "P" /\ At(p, i + 3) = "<"
    THEN LET close == FindClose(p, i + 4)
             nm    == SubSeq(p, i + 4, close - 1)
         IN  IF close = 0 THEN Fail("unterminated name in group")
             ELSE IF Len(nm) = 0 THEN Fail("missing group name")
             ELSE IF \E k \in 1..Len(nm) : nm[k] \notin NameChars
             THEN Fail("bad character in group name")
             ELSE [ok |-> TRUE, j |-> close + 1, gid |-> g + 1, nm |-> nm]
    ELSE IF At(p, i + 2) = "P" THEN Fail("unknown specifier")
    ELSE Fail("unexpected end of pattern")

\* the group's body sub is parsed: it must be followed by ")"
CloseGroup(p, items, gid, sub) ==
    IF ~sub.ok THEN sub
    ELSE IF At(p, sub.i) # ")" THEN Fail("unbalanced parenthesis")
    ELSE ParseSeq(p, sub.i + 1, sub.g, sub.names,
                  Append(items, [t |-> "grp", i |-> gid, kid |-> sub.node]))

ParseGroup(p, g, names, items, h) ==
    IF ~h.ok THEN h
    ELSE IF h.nm # <<>> /\ HasName(names, h.nm) THEN Fail("redefinition of group name")
    ELSE CloseGroup(p, items, h.gid,
                    ParseSub(p, h.j, IF h.gid > 0 THEN h.gid ELSE g,
                             IF h.nm = <<>> THEN names ELSE Append(names, <<h.nm, h.gid>>)))

\* the item a repeat character at position i makes of the last item
Repeated(p, i, items) ==
    [items EXCEPT ![Len(items)] =
        [t |-> "rep", min |-> IF p[i] = "+" THEN 1 ELSE 0,
         max |-> IF p[i] = "?" THEN 1 ELSE -1, lazy |-> At(p, i + 1) = "?", kid |-> @]]

\* _parse: the items of one branch, up to the next "|", ")" or the end
ParseSeq(p, i, g, names, items) ==
    LET c == At(p, i)
    IN  IF c \in {"", "|", ")"}
        THEN [ok |-> TRUE, node |-> [t |-> "cat", kids |-> items],
              i |-> i, g |-> g, names |-> names]
        ELSE IF c = "(" THEN ParseGroup(p, g, names, items, GroupHeader(p, i, g))
        ELSE IF c \in {"?", "*", "+"} /\ Len(items) = 0 THEN Fail("nothing to repeat")
        ELSE IF c \in {"?", "*", "+"} /\ items[Len(items)].t = "rep"
        THEN Fail("multiple repeat")
        ELSE ParseSeq(p,
                      IF c \in {"?", "*", "+"} /\ At(p, i + 1) = "?" THEN i + 2 ELSE i + 1,
                      g, names,
                      IF c \in {"?", "*", "+"} THEN Repeated(p, i, items)
                      ELSE IF c = "." THEN Append(items, [t |-> "any"])
                      ELSE Append(items, [t |-> "lit", c |-> c]))

\* sre_parse.parse: a ")" left over at the top level is an error
Parsed(p, r) ==
    IF ~r.ok THEN r
    ELSE IF r.i <= Len(p) THEN Fail("unbalanced parenthesis")
    ELSE [ok |-> TRUE, root |-> r.node, ngroups |-> r.g, names |-> r.names]

Compile(p) == Parsed(p, ParseSub(p, 1, 0, <<>>))

\* re.IGNORECASE compares lower-cased characters
Lower(c) ==
    CASE c = "A" -> "a" [] c = "B" -> "b" [] c = "R" -> "r" [] c = "G" -> "g"
      [] c = "P" -> "p" [] c = "D" -> "d" [] c = "N" -> "n" [] c = "F" -> "f"
      [] OTHER -> c

Unset == <<-1, -1>>

RECURSIVE MatchNode(_, _, _, _)
RECURSIVE MatchCat(_, _, _, _)
RECURSIVE MatchStar(_, _, _, _, _)

\* the results rs of a group's body, with the group's span recorded
Captured(rs, i, pos) ==
    IF i = 0 THEN rs
    ELSE [k \in 1..Len(rs) |->
            [pos |-> rs[k].pos, caps |-> [rs[k].caps EXCEPT ![i] = <<pos, rs[k].pos>>]]]

\* continue the repetition after each result that moved past offset from
RECURSIVE StarEach(_, _, _, _, _)
StarEach(kid, s, rs, from, lazy) ==
    IF Len(rs) = 0 THEN <<>>
    ELSE (IF Head(rs).pos > from
          THEN MatchStar(kid, s, Head(rs).pos, Head(rs).caps, lazy) ELSE <<>>)
         \o StarEach(kid, s, Tail(rs), from, lazy)

\* zero or more tries and then here, or here first when lazy
Preferred(lazy, more, here) == IF lazy THEN here \o more ELSE more \o here

\* zero or more further repetitions of kid from offset pos
MatchStar(kid, s, pos, caps, lazy) ==
    Preferred(lazy, StarEach(kid, s, MatchNode(kid, s, pos, caps), pos, lazy),
              <<[pos |-> pos, caps |-> caps]>>)

\* x?, x*, x+ given the results once of matching x one time
Repetition(n, s, pos, caps, once) ==
    IF n.min = 1 THEN StarEach(n.kid, s, once, -1, n.lazy)
    ELSE Preferred(n.lazy,
                   IF n.max = 1 THEN once ELSE StarEach(n.kid, s, once, pos, n.lazy),
                   <<[pos |-> pos, caps |-> caps]>>)

\* every way node n matches s from offset pos, in the engine's order of
\* preference; a result is the end offset with the captures made so far
MatchNode(n, s, pos, caps) ==
    CASE n.t = "lit" ->
            IF pos < Len(s) /\ Lower(s[pos + 1]) = Lower(n.c)
            THEN <<[pos |-> pos + 1, caps |-> caps]>> ELSE <<>>
      [] n.t = "any" ->
            IF pos < Len(s) /\ s[pos + 1] # "\n"
            THEN <<[pos |-> pos + 1, caps |-> caps]>> ELSE <<>>
      [] n.t = "cat" -> MatchCat(n.kids, s, pos, caps)
      [] n.t = "alt" -> MatchCat(<<n.kids[1]>>, s, pos, caps)
                        \o MatchCat(<<n.kids[2]>>, s, pos, caps)
      [] n.t = "grp" -> Captured(MatchCat(<<n.kid>>, s, pos, caps), n.i, pos)
      [] n.t = "rep" -> Repetition(n, s, pos, caps, MatchCat(<<n.kid>>, s, pos, caps))

\* the rest of a concatenation after each result of its first kid
RECURSIVE CatEach(_, _, _)
CatEach(kids, s, rs) ==
    IF Len(rs) = 0 THEN <<>>
    ELSE MatchCat(kids, s, Head(rs).pos, Head(rs).caps) \o CatEach(kids, s, Tail(rs))

\* the kids of a concatenation, one after the other
MatchCat(kids, s, pos, caps) ==
    IF Len(kids) = 0 THEN <<[pos |-> pos, caps |-> caps]>>
    ELSE CatEach(Tail(kids), s, MatchNode(Head(kids), s, pos, caps))

\* a match object: the span of group 0 and the spans of the groups; with
\* no match at offset start the search moves one character on
RECURSIVE SearchFrom(_, _, _)
FirstMatch(re, s, start, rs) ==
    IF Len(rs) > 0 THEN Some([s |-> start, e |-> rs[1].pos, caps |-> rs[1].caps])
    ELSE SearchFrom(re, s, start + 1)

\* the leftmost match at or after offset start
SearchFrom(re, s, start) ==
    IF start > Len(s) THEN None
    ELSE FirstMatch(re, s, start,
                    MatchNode(re.root, s, start, [k \in 1..re.ngroups |-> Unset]))

\* re.finditer: the scanner restarts at the end of the last match, one
\* further on after an empty match
RECURSIVE FindIter(_, _, _)
Scanned(re, s, m) ==
    IF IsNone(m) THEN <<>>
    ELSE <<Val(m)>> \o
         FindIter(re, s, IF Val(m).e = Val(m).s THEN Val(m).e + 1 ELSE Val(m).e)

FindIter(re, s, start) == Scanned(re, s, SearchFrom(re, s, start))

\* m.group(r), None for a group that took no part in the match
Group(m, s, r) ==
    IF r = 0 THEN Some(Slice(s, m.s, m.e))
    ELSE IF m.caps[r] = Unset THEN None
    ELSE Some(Slice(s, m.caps[r][1], m.caps[r][2]))

Start(m, r) == IF r = 0 THEN m.s ELSE m.caps[r][1]
End(m, r) == IF r = 0 THEN m.e ELSE m.caps[r][2]

\* m.groups()
Groups(m, s) == [r \in 1..Len(m.caps) |-> Group(m, s, r)]

(***************************************************************************)
(* GrepPanel._update: the markup built for the matches of a regex.         *)
(* An outcome is [exc |-> "none", content |-> tokens] when a content is    *)
(* handed to _render, and [exc |-> <exception>] when the call raises.      *)
(***************************************************************************)

MARK_OPEN == <<"~", "~", "@", "R", "G", "@", "~", "~">>
MARK_CLOSE == <<"~", "~", "@", "@", "R", "G", "@", "@", "~", "~">>
TAG_OPEN == "<code class='inner_group'>"
TAG_CLOSE == "</code>"

Raised(e) == [exc |-> e]
Returned(c) == [exc |-> "none", content |-> c]

\* lines 281-288: the text of the match with each group wrapped in markers;
\* concatenating a group that is None raises TypeError
RECURSIVE SpliceFrom(_, _, _, _, _)
SpliceFrom(m, msg, r, prev_end, ret) ==
    IF r > Len(m.caps)
    THEN Returned(ret \o Slice(msg, prev_end, End(m, 0)))
    ELSE LET g == Group(m, msg, r)
         IN  IF IsNone(g) THEN Raised("TypeError")
             ELSE SpliceFrom(m, msg, r + 1, End(m, r),
                             ret \o Slice(msg, prev_end, Start(m, r))
                                 \o MARK_OPEN \o Val(g) \o MARK_CLOSE)

\* lines 278-290: ret
Splice(m, msg) ==
    IF Len(m.caps) > 0 THEN SpliceFrom(m, msg, 1, Start(m, 0), <<>>)
    ELSE Returned(Val(Group(m, msg, 0)))

\* lines 292-296
Highlight(ret) ==
    Replace(Replace(html_encode(Strip(ret)), MARK_OPEN, <<TAG_OPEN>>),
            MARK_CLOSE, <<TAG_CLOSE>>)

\* m.groupdict(): where a name stands in the pattern's list of names
NameIndex(re, nm) == (CHOOSE k \in 1..Len(re.names) : re.names[k][1] = nm)

\* o, or what raised first
Then(a, b) ==
    IF a.exc # "none" THEN a
    ELSE IF b.exc # "none" THEN b
    ELSE Returned(a.content \o b.content)

Wrap(pre, o, post) ==
    IF o.exc # "none" THEN o ELSE Returned(pre \o o.content \o post)

\* line 304: None has no strip()
NamedValue(v) ==
    IF IsNone(v) THEN Raised("AttributeError") ELSE Returned(html_encode(Strip(Val(v))))

\* lines 302-304: one item per key of m.groupdict(), in the dict's order
RECURSIVE NamedItems(_, _, _, _)
NamedItems(re, m, msg, keys) ==
    IF Len(keys) = 0 THEN Returned(<<>>)
    ELSE Then(Wrap(<<"<li>">> \o Head(keys) \o <<": <code class='result'>">>,
                   NamedValue(Group(m, msg, re.names[NameIndex(re, Head(keys))][2])),
                   <<"</code></li>">>),
              NamedItems(re, m, msg, Tail(keys)))

\* line 310: html_encode iterates its argument
PositionalValue(g) ==
    IF IsNone(g) THEN Raised("TypeError") ELSE Returned(Strip(html_encode(Val(g))))

\* lines 309-310: one item per group
RECURSIVE PositionalItems(_)
PositionalItems(gs) ==
    IF Len(gs) = 0 THEN Returned(<<>>)
    ELSE Then(Wrap(<<"<li><code class='result'>">>, PositionalValue(Head(gs)),
                   <<"</code></li>">>),
              PositionalItems(Tail(gs)))

\* lines 298-311
SubList(re, m, msg, keys) ==
    IF Len(m.caps) = 0 THEN Returned(<<>>)
    ELSE IF Len(re.names) > 0
    THEN Wrap(<<"<ul>">>, NamedItems(re, m, msg, keys), <<"</ul>">>)
    ELSE Wrap(<<"<ol>">>, PositionalItems(Groups(m, msg)), <<"</ol>">>)

\* lines 292-296
Highlighted(ret) ==
    IF ret.exc # "none" THEN ret ELSE Returned(Highlight(ret.content))

\* lines 276-316: what one match adds to out
MatchItem(re, m, msg, keys) ==
    Then(Wrap(<<"<li><code class='result'>">>, Highlighted(Splice(m, msg)), <<"</code>">>),
         Wrap(<<>>, SubList(re, m, msg, keys), <<"</li>">>))

\* lines 275-316: the loop over re.finditer
RECURSIVE MatchItems(_, _, _, _)
MatchItems(re, ms, msg, keys) ==
    IF Len(ms) = 0 THEN Returned(<<>>)
    ELSE Then(MatchItem(re, Head(ms), msg, keys), MatchItems(re, Tail(ms), msg, keys))

REGEX_NOT_SET == <<"<b class='error'>Regex not set</b>">>
NO_MATCHES == <<"<b>No Matches for regex.</b>">>
LOADING == <<"<em>Loading...</em>">>

ErrorContent(err) ==
    <<"<b class='error'>Error parsing regex: \"<code>", err, "</code>\"<b>">>

\* lines 272-323: the regex matched somewhere; ms are the matches
Found(re, ms, msg, keys) ==
    Wrap(<<"<b>Found <em>", ToString(Len(ms)), "</em> match(es).</b>", "<ol>">>,
         MatchItems(re, ms, msg, keys), <<"</ol>">>)

\* _update looking at the string before the pattern is compiled
SearchedStringFirst(re, msg, keys) ==
    IF IsNone(msg) THEN Raised("TypeError")
    ELSE IF ~re.ok THEN Returned(ErrorContent(re.err))
    ELSE IF IsNone(SearchFrom(re, Val(msg), 0)) THEN Returned(NO_MATCHES)
    ELSE Found(re, FindIter(re, Val(msg), 0), Val(msg), keys)

\* lines 270-329 with the pattern compiled: re.search compiles the pattern
\* (re.error) before it looks at the string (TypeError for None)
Searched(re, msg, keys) ==
    IF ~re.ok THEN Returned(ErrorContent(re.err))
    ELSE IF IsNone(msg) THEN Raised("TypeError")
    ELSE IF IsNone(SearchFrom(re, Val(msg), 0)) THEN Returned(NO_MATCHES)
    ELSE Found(re, FindIter(re, Val(msg), 0), Val(msg), keys)

\* lines 266-329.  rex and msg are the panel's _rex and _msg; keys is the
\* order in which m.groupdict() yields its keys.
_update(rex, msg, keys) ==
    IF IsNone(rex) THEN Returned(REGEX_NOT_SET)
    ELSE Searched(Compile(Val(rex)), msg, keys)

\* the orders a dict of these names can be iterated in
Orderings(names) ==
    {p \in [1..Len(names) -> 1..Len(names)] :
        \A i, j \in 1..Len(names) : i # j => p[i] # p[j]}

NameOrders(re) ==
    IF ~re.ok THEN {<<>>}
    ELSE {[i \in 1..Len(re.names) |-> re.names[p[i]][1]] : p \in Orderings(re.names)}

KeyOrders(rex) == IF IsNone(rex) THEN {<<>>} ELSE NameOrders(Compile(Val(rex)))

(***************************************************************************)
(* The plugin's objects and the calls the host makes on them.              *)
(***************************************************************************)

VARIABLES
    laf,        \* the host's look-and-feel, swing.UIManager.getLookAndFeel()
    extender,   \* the BurpExtender instance and how its registration ended
    GrepPanel,  \* the class attributes GrepPanel._msg and GrepPanel._rex
    tabs,       \* the ResponseGrepperTab instances with their panels
    last        \* the last call made by the host and how it ended

vars == <<laf, extender, GrepPanel, tabs, last>>

MaxTabs == 2

\* an HTTP response as the host hands it over: headers, blank line, body
Headers == <<"H", "\r", "\n", "\r", "\n">>
Response(body) == Headers \o body

\* helpers.analyzeResponse(content).getBodyOffset()
getBodyOffset(content) ==
    LET k == Find(content, <<"\r", "\n", "\r", "\n">>)
    IN  IF k = 0 THEN Len(content) ELSE k + 3

\* attribute lookup on an instance: the instance's own attributes first,
\* then those of its class
GetAttr(panel, name) == IF name \in DOMAIN panel THEN panel[name] ELSE GrepPanel[name]

SetAttr(panel, name, v) ==
    [x \in DOMAIN panel \cup {name} |-> IF x = name THEN v ELSE panel[x]]

\* the two palettes, light first
_styles == <<"light", "dark">>

\* lines 244-261: a bool indexes the list as 0 or 1
_render(dark_mode, content) ==
    [style |-> _styles[IF dark_mode THEN 2 ELSE 1], html |-> fix_whitespace(content)]

\* ret, content and isRequest: the result and the arguments of isEnabled;
\* text: the text of the field, upd: the panel's _rex and _msg when its
\* _update was called
NoCall == [op |-> "none", tab |-> 0, exc |-> "none", ret |-> FALSE,
           content |-> None, isRequest |-> FALSE, text |-> None, upd |-> None]

Call(op, t, exc) == [NoCall EXCEPT !.op = op, !.tab = t, !.exc = exc]

\* the names bound at module level when _checkTheme runs
ModuleGlobals ==
    {"re", "sys", "traceback", "IBurpExtender", "IMessageEditorTabFactory",
     "IMessageEditorTab", "ITextEditor", "swing", "BorderLayout", "json", "os",
     "NAME", "TAB_TITLE", "html_encode", "fix_whitespace", "fix_exception",
     "BurpExtender", "ResponseGrepperTab", "GrepPanel"}

\* lines 94-104.  The handler of a failed isDark() reads the global name
\* theme before anything else.
_checkTheme(l) ==
    IF l.isDark # "AttributeError" THEN [exc |-> "none", dark_mode |-> l.isDark = "True"]
    ELSE IF "theme" \notin ModuleGlobals THEN [exc |-> "NameError"]
    ELSE [exc |-> "none",
          dark_mode |-> l.themeWordDark \/ Find([i \in 1..Len(l.id) |-> Lower(l.id[i])],
                                                <<"d", "a", "r", "c", "u", "l", "a">>) # 0]

\* lines 78-89
registerExtenderCallbacks ==
    /\ extender.status = "new"
    /\ LET r == _checkTheme(laf)
       IN  /\ extender' = IF r.exc = "none"
                          THEN [_dark_mode |-> r.dark_mode, status |-> "registered"]
                          ELSE [extender EXCEPT !.status = "raised"]
           /\ last' = Call("registerExtenderCallbacks", 0, r.exc)
    /\ UNCHANGED <<laf, GrepPanel, tabs>>

NotCreated == [created |-> FALSE, _currentMessage |-> None, panel |-> <<>>,
               results |-> None]

\* lines 91-92, 110-114, 158-180: tabs are numbered in the order of creation
createNewInstance(t) ==
    /\ extender.status = "registered"
    /\ ~tabs[t].created
    /\ \A u \in 1..(t - 1) : tabs[u].created
    /\ tabs' = [tabs EXCEPT ![t] =
                  [created |-> TRUE, _currentMessage |-> None, panel |-> <<>>,
                   results |-> Some(_render(extender._dark_mode, LOADING))]]
    /\ last' = Call("createNewInstance", t, "none")
    /\ UNCHANGED <<laf, extender, GrepPanel>>

\* isEnabled without the test of isRequest
isEnabledForRequests(content, isRequest) ==
    ~IsNone(content) /\ Len(Val(content)) > 0

\* lines 122-128
isEnabledResult(content, isRequest) ==
    IF ~isRequest
    THEN (IF ~IsNone(content) /\ Len(Val(content)) > 0 THEN TRUE ELSE FALSE)
    ELSE FALSE

isEnabled(t, content, isRequest) ==
    /\ tabs[t].created
    /\ last' = [Call("isEnabled", t, "none") EXCEPT
                  !.ret = isEnabledResult(content, isRequest),
                  !.content = content, !.isRequest = isRequest]
    /\ UNCHANGED <<laf, extender, GrepPanel, tabs>>

\* lines 142-143
getMessage(t) == tabs[t]._currentMessage

\* the pane after _update ended with outcome o: an exception leaves it as
\* it was
Rendered(tab, o) ==
    IF o.exc = "none"
    THEN [tab EXCEPT !.results = Some(_render(extender._dark_mode, o.content))]
    ELSE tab

\* the call on tab t ends with the panel's _update, whose outcome is o
EndsWithUpdate(t, call, tab, o) ==
    /\ tabs' = [tabs EXCEPT ![t] = Rendered(tab, o)]
    /\ last' = [call EXCEPT
                  !.exc = o.exc,
                  !.upd = Some([rex |-> GetAttr(tab.panel, "_rex"),
                                msg |-> GetAttr(tab.panel, "_msg")])]

PanelUpdate(t, call, tab) ==
    \E keys \in KeyOrders(GetAttr(tab.panel, "_rex")) :
        EndsWithUpdate(t, call, tab,
                       _update(GetAttr(tab.panel, "_rex"), GetAttr(tab.panel, "_msg"), keys))

\* lines 213-215
PanelSetMessage(t, call, tab, msg) ==
    PanelUpdate(t, call, [tab EXCEPT !.panel = SetAttr(@, "_msg", Some(msg))])

\* lines 131-140
setMessage(t, content, isRequest) ==
    /\ tabs[t].created
    /\ IF IsNone(content) \/ isRequest
       THEN /\ tabs' = [tabs EXCEPT ![t]._currentMessage = content]
            /\ last' = Call("setMessage", t, "none")
       ELSE PanelSetMessage(t, Call("setMessage", t, "none"), [tabs[t] EXCEPT !._currentMessage = content],
                            Drop(Val(content), getBodyOffset(Val(content))))
    /\ UNCHANGED <<laf, extender, GrepPanel>>

\* _update_rex keeping the text as typed
StoredRegexUnstripped(text) ==
    IF IsNone(text) THEN None
    ELSE IF Len(Strip(Val(text))) > 0 THEN Some(Val(text))
    ELSE None

\* lines 218-225: the regex kept for the text of the field
StoredRegex(text) ==
    IF IsNone(text) THEN None
    ELSE IF Len(Strip(Val(text))) > 0 THEN Some(Strip(Val(text)))
    ELSE None

\* lines 217-226: Enter in the text field or the Update button; text is
\* what self._re_box.getText() returns
_update_rex(t, text) ==
    /\ tabs[t].created
    /\ PanelUpdate(t, [Call("_update_rex", t, "none") EXCEPT !.text = text],
                   [tabs[t] EXCEPT !.panel = SetAttr(@, "_rex", StoredRegex(text))])
    /\ UNCHANGED <<laf, extender, GrepPanel>>

(***************************************************************************)
(* What the host and the user feed in.                                     *)
(***************************************************************************)

LookAndFeels ==
    {[isDark |-> "True", id |-> <<"F", "l", "a", "t">>, themeWordDark |-> TRUE],
     [isDark |-> "False", id |-> <<"F", "l", "a", "t">>, themeWordDark |-> FALSE],
     [isDark |-> "AttributeError", id |-> <<"D", "a", "r", "c", "u", "l", "a">>,
      themeWordDark |-> FALSE],
     [isDark |-> "AttributeError", id |-> <<"N", "i", "m", "b", "u", "s">>,
      themeWordDark |-> FALSE]}

Bodies ==
    {<<"a", "b">>,
     <<"a", " ", " ", "<", "b", ">", "&">>,
     <<"~", "~", "@", "R", "G", "@", "~", "~">>,
     <<>>}

Contents == {None} \cup {Some(Response(b)) : b \in Bodies}

EnabledContents == {None, Some(<<>>), Some(Response(<<"a", "b">>))}

RegexTexts ==
    {None,
     Some(<<>>),
     Some(<<" ", "a", " ">>),
     Some(<<"x">>),
     Some(<<".", "+">>),
     Some(<<"(", "a">>),
     Some(<<"(", "a", ")", "(", "b", ")">>),
     Some(<<"(", "a", "(", "b", ")", ")">>),
     Some(<<"(", "a", ")", "|", "(", "b", ")">>),
     Some(<<"<", "(", ".", ")", ">">>),
     Some(<<"(", "?", "P", "<", "n", ">", "a", ")", "(", "b", ")">>),
     Some(<<"(", "?", "P", "<", "n", ">", "a", ")", "(", "?", "P", "<", "m", ">", "b", ")">>)}

Init ==
    /\ laf \in LookAndFeels
    /\ extender = [_dark_mode |-> FALSE, status |-> "new"]
    /\ GrepPanel = [x \in {"_msg", "_rex"} |-> None]
    /\ tabs = [t \in 1..MaxTabs |-> NotCreated]
    /\ last = NoCall

\* one message-editor tab, every input
Next ==
    \/ registerExtenderCallbacks
    \/ createNewInstance(1)
    \/ \E c \in EnabledContents, q \in BOOLEAN : isEnabled(1, c, q)
    \/ \E c \in Contents, q \in BOOLEAN : setMessage(1, c, q)
    \/ \E x \in RegexTexts : _update_rex(1, x)

Spec == Init /\ [][Next]_vars

\* several tabs side by side, a few inputs
TabContents == {None, Some(Response(<<"a", "b">>))}

TabTexts == {Some(<<>>), Some(<<" ", " ">>), Some(<<" ", "a", " ">>)}

NextTabs ==
    \/ registerExtenderCallbacks
    \/ \E t \in 1..MaxTabs : createNewInstance(t)
    \/ \E t \in 1..MaxTabs, c \in TabContents : setMessage(t, c, FALSE)
    \/ \E t \in 1..MaxTabs, x \in TabTexts : _update_rex(t, x)

SpecTabs == Init /\ [][NextTabs]_vars

(***************************************************************************)
(* The claims.                                                             *)
(***************************************************************************)

Created == {t \in 1..MaxTabs : tabs[t].created}
RexOf(t) == GetAttr(tabs[t].panel, "_rex")
MsgOf(t) == GetAttr(tabs[t].panel, "_msg")
HtmlOf(t) == Val(tabs[t].results).html

\* the last call ran the _update of tab t's panel
UpdateRan(t) == last.tab = t /\ ~IsNone(last.upd)

Count(h, tok) == Cardinality({i \in 1..Len(h) : h[i] = tok})

IsErrorHtml(h) ==
    /\ Len(h) = 3
    /\ h[1] = "<b class='error'>Error parsing regex: \"<code>"
    /\ h[3] = "</code>\"<b>"

\* C2: when the engine rejects the stored regex, whatever the stored message
\* (None included), _update ends without an exception, the pane shows the
\* "Error parsing regex" content and nothing of a result, and the panel's
\* _rex and _msg are what they were when _update was called.
C2_RejectedRegexShowsError ==
    \A t \in Created :
        (UpdateRan(t) /\ ~IsNone(Val(last.upd).rex) /\ ~Compile(Val(Val(last.upd).rex)).ok)
        => /\ last.exc = "none"
           /\ IsErrorHtml(HtmlOf(t))
           /\ RexOf(t) = Val(last.upd).rex
           /\ MsgOf(t) = Val(last.upd).msg

\* a rejected regex was submitted before any message was set
C2_Witness ==
    /\ last.op = "_update_rex" /\ 1 \in Created
    /\ RexOf(1) = Some(<<"(", "a">>)
    /\ IsNone(MsgOf(1))
    /\ IsErrorHtml(HtmlOf(1))

\* C6: isEnabled returns True exactly for a response whose content is not
\* None and not empty, and a call of isEnabled changes nothing of the tabs,
\* the panels or the extender.
C6_EnabledOnlyForNonEmptyResponse ==
    /\ [](last.op = "isEnabled"
            => (last.ret <=> (/\ ~last.isRequest
                              /\ ~IsNone(last.content)
                              /\ Len(Val(last.content)) > 0)))
    /\ [][last'.op = "isEnabled"
            => tabs' = tabs /\ GrepPanel' = GrepPanel /\ extender' = extender]_vars

C6_Witness ==
    /\ last.op = "isEnabled" /\ last.ret
    /\ ~last.isRequest /\ Len(Val(last.content)) > 0

WellFormedRegex(rex) ==
    \/ IsNone(rex)
    \/ /\ Len(Val(rex)) > 0
       /\ ~IsSpace(Val(rex)[1])
       /\ ~IsSpace(Val(rex)[Len(Val(rex))])

\* C10: a call on one tab leaves every other tab as it was, the class
\* attributes GrepPanel._msg and GrepPanel._rex stay None, setMessage keeps
\* the tab's regex, and a tab's regex is None or a non-empty text without
\* leading or trailing whitespace: None when the tab is created and after
\* an empty or all-whitespace text is submitted.
C10_RegexIsPerTab ==
    /\ [][\A t \in 1..MaxTabs : t # last'.tab => tabs'[t] = tabs[t]]_vars
    /\ [](\A x \in DOMAIN GrepPanel : IsNone(GrepPanel[x]))
    /\ [][last'.op = "setMessage" =>
            GetAttr(tabs'[last'.tab].panel, "_rex") = RexOf(last'.tab)]_vars
    /\ [](\A t \in Created : WellFormedRegex(RexOf(t)))
    /\ [](last.op = "createNewInstance" => IsNone(RexOf(last.tab)))
    /\ []((/\ last.op = "_update_rex"
            /\ (IsNone(last.text) \/ \A i \in 1..Len(Val(last.text)) : IsSpace(Val(last.text)[i])))
            => IsNone(RexOf(last.tab)))

\* tab 1 keeps its regex and its results while a message is set on tab 2
C10_Witness ==
    /\ Created = {1, 2}
    /\ RexOf(1) = Some(<<"a">>) /\ MsgOf(1) = Some(<<"a", "b">>)
    /\ last.op = "setMessage" /\ last.tab = 2
    /\ IsNone(RexOf(2)) /\ MsgOf(2) = Some(<<"a", "b">>)
    /\ HtmlOf(1) # HtmlOf(2)

Accepted(t) == ~IsNone(RexOf(t)) /\ Compile(Val(RexOf(t))).ok
CompiledOf(t) == Compile(Val(RexOf(t)))
MatchesOf(t) == FindIter(CompiledOf(t), Val(MsgOf(t)), 0)

IsResultHtml(h) == h = NO_MATCHES \/ (Len(h) >= 3 /\ h[1] = "<b>Found <em>")

\* the body of a message the host passed to the tab's setMessage
BodyOf(content) ==
    IF IsNone(content) THEN None
    ELSE Some(Drop(Val(content), getBodyOffset(Val(content))))

Shows(t, o) == o.exc = "none" /\ HtmlOf(t) = fix_whitespace(o.content)

\* C1: results shown in the pane are those of the stored regex on the body
\* of the message getMessage() returns.
C1_PanelShowsCurrentMessage ==
    \A t \in Created :
        IsResultHtml(HtmlOf(t))
        => \E keys \in KeyOrders(RexOf(t)) :
              Shows(t, _update(RexOf(t), BodyOf(getMessage(t)), keys))

SubListsOk(h, re, ms) ==
    IF re.ngroups = 0 THEN Count(h, "<ul>") = 0 /\ Count(h, "<ol>") = 1
    ELSE IF Len(re.names) > 0
    THEN /\ Count(h, "<ul>") = Len(ms) /\ Count(h, "<ol>") = 1
         /\ Count(h, ": <code class='result'>") = Len(ms) * Len(re.names)
    ELSE /\ Count(h, "<ul>") = 0 /\ Count(h, "<ol>") = 1 + Len(ms)
         /\ Count(h, "</code></li>") = Len(ms) * re.ngroups

\* C3: after _update ran with an accepted regex that matches, every match
\* of a pattern with groups is rendered with exactly one sub-list: a named
\* list with one item per name when the pattern has names, else a
\* positional list with one item per group; without groups, no sub-list.
C3_OneSubListPerMatch ==
    \A t \in Created :
        (UpdateRan(t) /\ Accepted(t) /\ ~IsNone(MsgOf(t)) /\ Len(MatchesOf(t)) > 0)
        => SubListsOk(HtmlOf(t), CompiledOf(t), MatchesOf(t))

\* C4: in results that _update rendered, no character & < > " is left
\* unescaped and the only highlight tags are those of the groups of the
\* matches: one opening tag per group of each match.
C4_MatchedTextIsEscaped ==
    \A t \in Created :
        (UpdateRan(t) /\ last.exc = "none" /\ Accepted(t) /\ ~IsNone(MsgOf(t)))
        => /\ \A i \in 1..Len(HtmlOf(t)) : HtmlOf(t)[i] \notin {"&", "<", ">", "\""}
           /\ Count(HtmlOf(t), TAG_OPEN) = Len(MatchesOf(t)) * CompiledOf(t).ngroups

\* what the claim says the handler of a failed isDark() computes
ClaimedDark(l) ==
    IF l.isDark # "AttributeError" THEN l.isDark = "True"
    ELSE l.themeWordDark \/ Find([i \in 1..Len(l.id) |-> Lower(l.id[i])],
                                 <<"d", "a", "r", "c", "u", "l", "a">>) # 0

\* C5: registration completes with _dark_mode set from isDark() or, when
\* isDark() fails, from the fallback, and every render uses the palette
\* that _dark_mode selects.
C5_ThemeDetectionCompletes ==
    /\ extender.status # "new"
         => extender.status = "registered" /\ extender._dark_mode = ClaimedDark(laf)
    /\ \A t \in Created :
         Val(tabs[t].results).style = IF extender._dark_mode THEN "dark" ELSE "light"

WithoutMarkers(ret) == Replace(Replace(ret, MARK_OPEN, <<>>), MARK_CLOSE, <<>>)

SplicePreserves(o, m, msg) ==
    o.exc = "none"
    => /\ WithoutMarkers(o.content) = Val(Group(m, msg, 0))
       /\ Len(o.content) = Len(Val(Group(m, msg, 0)))
                           + Len(m.caps) * (Len(MARK_OPEN) + Len(MARK_CLOSE))

\* C7: for every match of a pattern with groups, all of which took part in
\* the match, the spliced text without its markers is the matched text.
C7_SplicePreservesMatch ==
    \A t \in Created :
        (UpdateRan(t) /\ Accepted(t) /\ ~IsNone(MsgOf(t)) /\ CompiledOf(t).ngroups > 0)
        => \A k \in 1..Len(MatchesOf(t)) :
              SplicePreserves(Splice(MatchesOf(t)[k], Val(MsgOf(t))),
                              MatchesOf(t)[k], Val(MsgOf(t)))

InOrder(ms) == \A k \in 1..(Len(ms) - 1) : ms[k].e <= ms[k + 1].s

ResultsOk(h, ms) ==
    /\ h = NO_MATCHES <=> Len(ms) = 0
    /\ Len(ms) > 0 => /\ Len(h) >= 3 /\ h[1] = "<b>Found <em>"
                      /\ h[2] = ToString(Len(ms))
                      /\ Count(h, "</li>") = Len(ms)
                      /\ InOrder(ms)

\* C8: after _update ran with an accepted regex, the pane shows "No
\* Matches" iff the regex has no match in the message, and otherwise
\* "Found N" with N the number of top-level items and of matches, which
\* come in the order of their occurrence.
C8_ListMatchesCount ==
    \A t \in Created :
        (UpdateRan(t) /\ Accepted(t))
        => /\ ~IsNone(MsgOf(t))
           /\ ResultsOk(HtmlOf(t), MatchesOf(t))

\* C9: every run of _update ends without an exception and has rendered one
\* of the four contents.
C9_UpdateIsTotal ==
    \A t \in Created :
        UpdateRan(t)
        => /\ last.exc = "none"
           /\ \/ HtmlOf(t) = REGEX_NOT_SET
              \/ IsResultHtml(HtmlOf(t))
              \/ IsErrorHtml(HtmlOf(t))

====
